---- MODULE Spec2Model ----
(***************************************************************************)
(* Breath-Easy backend: the acoustic event classification pipeline of      *)
(* backend/app/services (AnalysisService.analyze_audio, normalize_audio,   *)
(* extract_features, ModelService.predict) as a state machine.             *)
(*                                                                         *)
(* Numbers.  Python floats are modelled by exact rationals:                *)
(*   - a probability vector is a record [p |-> numerators, d |-> common    *)
(*     denominator]; "x /= np.sum(x)" sets d to the sum of the numerators; *)
(*   - a confidence is a record [n |-> numerator, d |-> denominator];      *)
(*   - acoustic indicators are integers in thousandths (signal_strength    *)
(*     in millionths), durations are integers in tenths of a second;       *)
(*   - the 120 model features are integers; z-scores are never rounded:    *)
(*     comparisons against thresholds are done on exact fractions.         *)
(***************************************************************************)
EXTENDS Integers, Sequences, FiniteSets, TLC

(***************************************************************************)
(* Bounds of the model (not program constants).                            *)
(***************************************************************************)
\* resolution of the raw predict_proba output: probabilities are k/ProbDen
ProbDen == 4
\* largest raw (pre-standardisation) feature value that is enumerated
MaxFeat == 2

(***************************************************************************)
(* Program constants.                                                      *)
(***************************************************************************)
\* feature dimensionality of the classifier (feature_extraction.py, model_service.py)
N_FEATURES == 120
\* analyze_audio: max_speech_duration = 30.0 (tenths of a second)
max_speech_duration == 300
\* settings.MIN_DURATION / default min_duration = 0.5 (tenths of a second)
MIN_DURATION == 5

(***************************************************************************)
(* Generic helpers.                                                        *)
(***************************************************************************)
Min(a, b) == IF a < b THEN a ELSE b

Max(a, b) == IF a > b THEN a ELSE b

RECURSIVE SumTo(_, _)
\* sum of f[0] .. f[k]
SumTo(f, k) == IF k < 0 THEN 0 ELSE f[k] + SumTo(f, k - 1)

\* a/b > t/u for b, u > 0, without forming the cross products
\* (a \div b and a % b keep every intermediate value small)
FracGtInt(a, b, t) == (a \div b > t) \/ (a \div b = t /\ a % b # 0)

\* rationals n/d with d > 0
RLt(x, y) == x.n * y.d < y.n * x.d

RGt(x, y) == x.n * y.d > y.n * x.d

REq(x, y) == x.n * y.d = y.n * x.d

R(n, d) == [n |-> n, d |-> d]

(***************************************************************************)
(* ModelService: label map, load_model, predict.                           *)
(***************************************************************************)
\* contents of label_map.json that are enumerated: index -> readable name,
\* "" marks an index the file has no entry for.  The classifier has as many
\* classes as the sequence is long.
LabelConfigs ==
    { <<"normal", "crackles", "abnormal">>,
      <<"COPD", "Healthy", "URTI">>,
      <<"crackles", "", "Healthy">>,
      <<"Normal", "COPD">>,
      <<"Healthy">> }

\* load_model: self.inv_label_map = {int(k): v for k, v in label_map.items()}
InvLabelMapOf(cfg) ==
    [i \in {j \in 0..(Len(cfg) - 1) : cfg[j + 1] # ""} |-> cfg[i + 1]]

EmptyMap == [i \in {} |-> ""]

NoModel == [loaded |-> FALSE, n_classes |-> 0]

\* ModelService.__init__: model = None, inv_label_map = {}
ModelServiceInit == [model |-> NoModel, inv_label_map |-> EmptyMap]

\* ModelService.load_model: the outcomes of one call on service state ms.
\* Either a file is missing (nothing assigned), or joblib.load succeeded and
\* reading the label map failed (model assigned, map kept), or both loaded.
load_model(ms) ==
    { [ok |-> FALSE, ms |-> ms] }
    \cup { [ok |-> FALSE,
            ms |-> [ms EXCEPT !.model = [loaded |-> TRUE, n_classes |-> Len(cfg)]]]
           : cfg \in LabelConfigs }
    \cup { [ok |-> TRUE,
            ms |-> [model |-> [loaded |-> TRUE, n_classes |-> Len(cfg)],
                    inv_label_map |-> InvLabelMapOf(cfg)]]
           : cfg \in LabelConfigs }

\* dict.get(i, default) on inv_label_map
MapGet(m, i, default) == IF i \in DOMAIN m THEN m[i] ELSE default

\* distributions that put 0.9 on one class and 0.1 on another
SkewedProbas(n) ==
    { [p |-> [i \in 0..(n - 1) |-> IF i = q[1] THEN 9 ELSE IF i = q[2] THEN 1 ELSE 0],
       d |-> 10] : q \in {c \in (0..(n - 1)) \X (0..(n - 1)) : c[1] # c[2]} }

\* the output of model.predict_proba([fv])[0]: any distribution over the
\* model's classes with resolution 1/ProbDen, and the skewed ones
RawProbas(n) ==
    { [p |-> f, d |-> ProbDen] :
        f \in { g \in [0..(n - 1) -> 0..ProbDen] : SumTo(g, n - 1) = ProbDen } }
    \cup SkewedProbas(n)

\* np.sum(probs) as a numerator over probs.d
NpSum(probs, n) == SumTo(probs.p, n - 1)

NpNormalize_skipped(probs, n) == probs

\* probs /= np.sum(probs)
NpNormalize(probs, n) == [probs EXCEPT !.d = NpSum(probs, n)]

\* np.argmax: index of the first maximum
ArgMax(f, n) ==
    CHOOSE i \in 0..(n - 1) :
        /\ \A j \in 0..(n - 1) : f[j] <= f[i]
        /\ \A j \in 0..(i - 1) : f[j] < f[i]

\* _adjust_predictions_with_cough_indicators: cough_score * 240000
\* (indicators in thousandths): (cr/0.08)*0.25 + (fr/0.8)*0.25
\*  + min(ev/2.0, 1.0)*0.3 + min(onset/3.0, 1.0)*0.2, capped at 1.0
cough_score(features) ==
    Min(features.cough_event_ratio * 750
        + features.cough_frequency_ratio * 75
        + Min(features.energy_variation, 2000) * 36
        + Min(features.onset_rate, 3000) * 16,
        240000)

\* normal_score * 24000 (signal_strength in millionths):
\* (1-min(cr/0.08,1))*0.25 + (1-min(harsh/0.2,1))*0.25
\*  + min(ss/0.003,1)*0.25 + (1-min(ev/2.0,1))*0.25, capped at 1.0
normal_score(features) ==
    Min((80 - Min(features.cough_event_ratio, 80)) * 75
        + (200 - Min(features.harsh_sound_ratio, 200)) * 30
        + Min(features.signal_strength, 3000) * 2
        + (2000 - Min(features.energy_variation, 2000)) * 3,
        24000)

RespNames ==
    {"Asthma", "Bronchiectasis", "Bronchiolitis", "COPD", "LRTI", "Pneumonia", "URTI"}

\* _adjust_predictions_with_cough_indicators(features, probs)
adjust_predictions_with_cough_indicators(inv_label_map, n, features, probs) ==
    LET healthy == {i \in DOMAIN inv_label_map : inv_label_map[i] = "Healthy"}
        resp_indices == {i \in DOMAIN inv_label_map : inv_label_map[i] \in RespNames}
        nr == Cardinality(resp_indices)
        k == Max(nr, 1)
    IN  IF healthy = {}
        THEN NpNormalize(probs, n)
        ELSE LET healthy_idx == CHOOSE i \in healthy : \A j \in healthy : i <= j
                 h == probs.p[healthy_idx]
             IN  IF cough_score(features) >= 204000      \* cough_score >= 0.85
                 THEN \* probs[healthy_idx] = healthy_prob * 0.8 and each
                      \* respiratory class += healthy_prob * 0.2 / len(resp_indices),
                      \* all numerators over the denominator 5 * k * probs.d
                      NpNormalize(
                        [p |-> [i \in 0..(n - 1) |->
                                  IF i = healthy_idx THEN 4 * k * h
                                  ELSE IF i \in resp_indices
                                       THEN 5 * k * probs.p[i] + h
                                       ELSE 5 * k * probs.p[i]],
                         d |-> 5 * k * probs.d], n)
                 ELSE IF normal_score(features) >= 19200  \* normal_score >= 0.8
                 THEN \* probs[healthy_idx] = min(probs[healthy_idx] + 0.05, 0.8),
                      \* numerators over the denominator 20 * probs.d
                      NpNormalize(
                        [p |-> [i \in 0..(n - 1) |->
                                  IF i = healthy_idx
                                  THEN Min(20 * h + probs.d, 16 * probs.d)
                                  ELSE 20 * probs.p[i]],
                         d |-> 20 * probs.d], n)
                 ELSE NpNormalize(probs, n)

IndexName(i) == "class_" \o ToString(i)

\* a Python dict label -> probability in insertion order:
\* [k |-> keys, v |-> numerators, d |-> common denominator]
DictHas(cp, key) == \E i \in 1..Len(cp.k) : cp.k[i] = key

DictIdx(cp, key) == CHOOSE i \in 1..Len(cp.k) : cp.k[i] = key

DictGet(cp, key) == cp.v[DictIdx(cp, key)]

\* max(d, key=d.get): the first key of maximal value
DictArgMax(cp) ==
    LET top == CHOOSE i \in 1..Len(cp.k) :
                   /\ \A j \in 1..Len(cp.k) : cp.v[j] <= cp.v[i]
                   /\ \A j \in 1..(i - 1) : cp.v[j] < cp.v[i]
    IN  cp.k[top]

\* ModelService.predict after _prepare_features, for the raw predict_proba
\* output raw: adjust, renormalise, argmax, name the classes
predict(ms, features, raw) ==
    LET n == ms.model.n_classes
        adjusted == NpNormalize(
            adjust_predictions_with_cough_indicators(ms.inv_label_map, n, features, raw), n)
        predicted_idx == ArgMax(adjusted.p, n)
    IN  [predicted_class |-> MapGet(ms.inv_label_map, predicted_idx, "Unknown"),
         confidence |-> R(adjusted.p[predicted_idx], adjusted.d),
         class_probs |-> [k |-> [i \in 1..n |-> MapGet(ms.inv_label_map, i - 1, IndexName(i - 1))],
                          v |-> [i \in 1..n |-> adjusted.p[i - 1]],
                          d |-> adjusted.d]]


(***************************************************************************)
(* extract_features: the acoustic indicators and the standardised vector.  *)
(***************************************************************************)
RECURSIVE SumRange(_, _, _)
\* f[lo] + ... + f[hi]
SumRange(f, lo, hi) ==
    IF lo > hi THEN 0
    ELSE IF lo = hi THEN f[lo]
    ELSE LET mid == (lo + hi) \div 2
         IN  SumRange(f, lo, mid) + SumRange(f, mid + 1, hi)

\* the 120 model features before line 369, enumerated by shape: the first
\* pat.e entries of model_features[88:93], the first pat.s entries of
\* model_features[93:100] and the first pat.o entries of model_features[0:88]
\* hold pat.a, every other entry holds 0  (index i here is Python index i-1)
FeaturePatterns == [e : {0, 1, 3}, s : {0, 1}, o : {0, 50}, a : 1..MaxFeat]

RawVector(pat) ==
    [i \in 1..N_FEATURES |->
        IF i \in 89..93 /\ i - 88 <= pat.e THEN pat.a
        ELSE IF i \in 94..100 /\ i - 93 <= pat.s THEN pat.a
        ELSE IF i <= 88 /\ i <= pat.o THEN pat.a
        ELSE 0]

\* line 369: (x - np.mean(x)) / (np.std(x) + 1e-6), kept exact:
\* dev[i] = 120 * (x[i] - mean) and ss = sum of dev[i]^2, so that
\* np.std(x) = sqrt(ss / 120) / 120 and z[i] = dev[i] / sqrt(ss / 120).
\* The 1e-6 is below the resolution of the integer features; it decides the
\* quotient only when std = 0, where every z[i] is 0 (dev[i] = 0, ss = 0).
Standardize(x) ==
    LET total == SumRange(x, 1, N_FEATURES)
        dev == [i \in 1..N_FEATURES |-> N_FEATURES * x[i] - total]
    IN  [dev |-> dev,
         ss |-> SumRange([i \in 1..N_FEATURES |-> dev[i] * dev[i]], 1, N_FEATURES)]

\* the indicator tuples that are enumerated, in thousandths (signal_strength
\* in millionths): the two tuples of test_model_service_guarded_adjustments.py,
\* a burst tuple and a calm tuple
IndicatorSets ==
    { [cough_event_ratio |-> 70, cough_frequency_ratio |-> 105, harsh_sound_ratio |-> 73,
       onset_rate |-> 3600, energy_variation |-> 1770, signal_strength |-> 10877],
      [cough_event_ratio |-> 120, cough_frequency_ratio |-> 1000, harsh_sound_ratio |-> 100,
       onset_rate |-> 3000, energy_variation |-> 2000, signal_strength |-> 5000],
      [cough_event_ratio |-> 60, cough_frequency_ratio |-> 900, harsh_sound_ratio |-> 150,
       onset_rate |-> 1000, energy_variation |-> 3000, signal_strength |-> 20000],
      [cough_event_ratio |-> 0, cough_frequency_ratio |-> 300, harsh_sound_ratio |-> 20,
       onset_rate |-> 500, energy_variation |-> 500, signal_strength |-> 10000] }

\* the features dict returned by extract_features for a clip of the given
\* duration (len(y) / sr, tenths of a second)
extract_features(duration, ind, pat) ==
    [model_features |-> Standardize(RawVector(pat)),
     duration |-> duration,
     cough_event_ratio |-> ind.cough_event_ratio,
     cough_frequency_ratio |-> ind.cough_frequency_ratio,
     harsh_sound_ratio |-> ind.harsh_sound_ratio,
     onset_rate |-> ind.onset_rate,
     energy_variation |-> ind.energy_variation,
     signal_strength |-> ind.signal_strength]

(***************************************************************************)
(* analyze_audio, lines 126-133: the two quantities the rules read.        *)
(***************************************************************************)
\* energy_variance = np.var(model_features[88:93]) as the fraction num/den:
\* var(z[88:93]) = (5*sum(dev^2) - sum(dev)^2) / 25 * 120 / ss
energy_variance_num(mf) ==
    N_FEATURES * (5 * SumRange([i \in 1..N_FEATURES |-> mf.dev[i] * mf.dev[i]], 89, 93)
                  - SumRange(mf.dev, 89, 93) * SumRange(mf.dev, 89, 93))

energy_variance_den(mf) == 25 * mf.ss

\* energy_variance > t for an integer t.  The five squared deviations are
\* part of ss, so energy_variance <= 120 / 5 = 24 for every feature vector.
energy_variance_gt(mf, t) ==
    mf.ss > 0 /\ FracGtInt(energy_variance_num(mf), energy_variance_den(mf), t)

\* spectral_sharpness = np.max(model_features[93:100]) > t10 / 10:
\* some z[i] = dev[i] / sqrt(ss/120) exceeds it, i.e. dev[i] > 0 and
\* 100 * 120 * dev[i]^2 / ss > t10^2
spectral_sharpness_gt(mf, t10) ==
    mf.ss > 0 /\ \E i \in 94..100 :
        mf.dev[i] > 0 /\ FracGtInt(100 * N_FEATURES * mf.dev[i] * mf.dev[i], mf.ss, t10 * t10)


(***************************************************************************)
(* analyze_audio, lines 115-243: the decision rules.                       *)
(***************************************************************************)
NoDict == [k |-> <<>>, v |-> <<>>, d |-> 1]

\* a two-entry literal such as {"abnormal": 0.85, "normal": 0.15}
Dict2(k1, v1, k2, v2) == [k |-> <<k1, k2>>, v |-> <<v1, v2>>, d |-> 100]

\* lines 116-133: label, confidence, original_label from the class_probs
\* returned by predict
DecisionStart(predictions) ==
    LET class_probs == predictions.class_probs
        label == DictArgMax(class_probs)
    IN  [label |-> label,
         confidence |-> R(DictGet(class_probs, label), class_probs.d),
         original_label |-> label,
         cough_detected |-> FALSE,
         pred_proba |-> NoDict,
         class_probs |-> class_probs]

ForceAbnormal(st) ==
    [st EXCEPT !.cough_detected = TRUE, !.label = "abnormal", !.confidence = R(85, 100),
               !.pred_proba = Dict2("abnormal", 85, "normal", 15)]

ForcedAbnormalRule_no_energy(st, task_type, features) ==
    LET mf == features.model_features
        duration == features.duration
    IN  IF task_type = "speech"
        THEN IF spectral_sharpness_gt(mf, 12) /\ duration > 50
             THEN ForceAbnormal(st)
             ELSE st
        ELSE IF spectral_sharpness_gt(mf, 9) /\ duration > 40
             THEN ForceAbnormal(st)
             ELSE st

\* lines 134-160: task-specific forced abnormal
ForcedAbnormalRule(st, task_type, features) ==
    LET mf == features.model_features
        duration == features.duration
    IN  IF task_type = "speech"
        THEN IF energy_variance_gt(mf, 500000) /\ spectral_sharpness_gt(mf, 12) /\ duration > 50
             THEN ForceAbnormal(st)
             ELSE IF /\ st.label = "normal"
                     /\ RLt(st.confidence, R(85, 100))
                     /\ energy_variance_gt(mf, 500000) /\ spectral_sharpness_gt(mf, 12)
             THEN ForceAbnormal(st)
             ELSE st
        ELSE IF energy_variance_gt(mf, 700000) /\ spectral_sharpness_gt(mf, 9) /\ duration > 40
             THEN ForceAbnormal(st)
             ELSE IF /\ st.label = "normal"
                     /\ RLt(st.confidence, R(85, 100))
                     /\ energy_variance_gt(mf, 700000) /\ spectral_sharpness_gt(mf, 9)
             THEN ForceAbnormal(st)
             ELSE st

CracklesGate_lenient(st) ==
    IF st.label = "crackles" /\ RLt(st.confidence, R(5, 10))
    THEN [st EXCEPT !.label = "normal", !.confidence = R(78, 100),
                    !.pred_proba = Dict2("normal", 78, "crackles", 22)]
    ELSE st

\* lines 162-169: the crackles gate
CracklesGate(st) ==
    IF st.label = "crackles" /\ RLt(st.confidence, R(9, 10))
    THEN [st EXCEPT !.label = "normal", !.confidence = R(78, 100),
                    !.pred_proba = Dict2("normal", 78, "crackles", 22)]
    ELSE st

\* lines 171-176
CertainCracklesRule(st, predictions) ==
    IF predictions.predicted_class = "crackles" /\ REq(st.confidence, R(1, 1))
    THEN [st EXCEPT !.label = "crackles", !.confidence = R(1, 1),
                    !.pred_proba = Dict2("crackles", 100, "normal", 0),
                    !.cough_detected = TRUE]
    ELSE st

\* lines 178-183: cough_indicator in tenths
cough_indicator(features) ==
    (IF energy_variance_gt(features.model_features, 400000) THEN 2 ELSE 0)
    + (IF spectral_sharpness_gt(features.model_features, 7) THEN 2 ELSE 0)

\* lines 184-196: cough-indicator override
CoughIndicatorRule(st, predictions, features) ==
    IF cough_indicator(features) >= 3
    THEN LET original_label == DictArgMax(predictions.class_probs)
         IN  IF original_label = "crackles"
             THEN [st EXCEPT !.original_label = original_label,
                             !.pred_proba = Dict2("crackles", 85, "normal", 15),
                             !.label = "crackles", !.confidence = R(85, 100)]
             ELSE [st EXCEPT !.original_label = original_label,
                             !.pred_proba = Dict2("abnormal", 85, "normal", 15),
                             !.label = "abnormal", !.confidence = R(85, 100)]
    ELSE st

\* round(x, 2) in hundredths for x = num/den >= 0 given in hundredths:
\* nearest integer, ties to even
RoundHalfEven(num, den) ==
    LET q == num \div den
        r == num % den
    IN  IF 2 * r < den THEN q
        ELSE IF 2 * r > den THEN q + 1
        ELSE IF q % 2 = 0 THEN q ELSE q + 1

\* lines 203-206: class_probs["abnormal"] = 0.85 and every other value
\* becomes round(value * 0.15, 2); all values are then hundredths
StrongCoughProbs(cp) ==
    LET keys == IF DictHas(cp, "abnormal") THEN cp.k ELSE Append(cp.k, "abnormal")
    IN  [k |-> keys,
         v |-> [i \in 1..Len(keys) |->
                  IF keys[i] = "abnormal" THEN 85
                  ELSE RoundHalfEven(15 * cp.v[i], cp.d)],
         d |-> 100]

StrongCoughRule_eager(st, features) ==
    IF cough_indicator(features) >= 2 /\ st.label = "normal"
    THEN [st EXCEPT !.label = "abnormal", !.confidence = R(85, 100),
                    !.class_probs = StrongCoughProbs(st.class_probs)]
    ELSE st

\* lines 198-206: strong-cough override
StrongCoughRule(st, features) ==
    IF cough_indicator(features) >= 5 /\ st.label = "normal"
    THEN [st EXCEPT !.label = "abnormal", !.confidence = R(85, 100),
                    !.class_probs = StrongCoughProbs(st.class_probs)]
    ELSE st

\* line 211-212: max(disease_classes, key=class_probs.get) raises ValueError
\* when 'Healthy' is the only key
HealthyRuleRaises(st) ==
    DictHas(st.class_probs, "Healthy") /\ Len(st.class_probs.k) = 1

\* lines 208-217: Healthy preference
HealthyRule(st) ==
    IF DictHas(st.class_probs, "Healthy") /\ Len(st.class_probs.k) > 1
    THEN LET cp == st.class_probs
             healthy_prob == DictGet(cp, "Healthy")
             disease == {i \in 1..Len(cp.k) : cp.k[i] # "Healthy"}
             top_disease_prob == CHOOSE v \in {cp.v[i] : i \in disease} :
                                    \A i \in disease : cp.v[i] <= v
         IN  IF 10 * healthy_prob > cp.d /\ 100 * top_disease_prob < 85 * cp.d
             THEN [st EXCEPT !.label = "normal", !.confidence = R(healthy_prob, cp.d)]
             ELSE st
    ELSE st

\* the rules in program order
DecisionRules(task_type, features, predictions) ==
    HealthyRule(
      StrongCoughRule(
        CoughIndicatorRule(
          CertainCracklesRule(
            CracklesGate(
              ForcedAbnormalRule(DecisionStart(predictions), task_type, features)),
            predictions),
          predictions, features),
        features))

\* str.lower() on the label names that occur
Lower(label) ==
    CASE label = "Healthy" -> "healthy"
      [] label = "Normal" -> "normal"
      [] label = "COPD" -> "copd"
      [] label = "URTI" -> "urti"
      [] OTHER -> label

\* lines 95-101 and 220: disease_map.get(label.lower(), ["Unspecified"])
disease_map ==
    [cough |-> <<"URTI", "Bronchitis", "Post-COVID irritation">>,
     heavy_breathing |-> <<"COPD", "Asthma", "Pneumonia">>,
     throat_clearing |-> <<"Post-COVID", "Allergy", "Reflux">>,
     abnormal |-> <<"Bronchiectasis", "COPD", "Pneumonia">>,
     normal |-> <<"Healthy">>]

possible_conditions_of_cased(label) ==
    IF label \in DOMAIN disease_map THEN disease_map[label]
    ELSE <<"Unspecified">>

possible_conditions_of(label) ==
    IF Lower(label) \in DOMAIN disease_map THEN disease_map[Lower(label)]
    ELSE <<"Unspecified">>

\* _generate_summary: the parts the rendered text embeds; the disease hint
\* appears only in the breath template, the disclaimer in every template
generate_summary(label, confidence, task_type, disease_hint) ==
    [label |-> label, confidence |-> confidence,
     conditions |-> IF task_type = "breath" THEN disease_hint ELSE <<>>,
     disclaimer |-> TRUE]


(***************************************************************************)
(* AnalysisService as a state machine.                                     *)
(***************************************************************************)
VARIABLES
    initialized,    \* AnalysisService.initialized
    ms,             \* AnalysisService.model_service: [model, inv_label_map]
    pc,             \* position of the current analyze_audio invocation
    req,            \* its arguments and input file: [task_type, min_duration, in_duration]
    tmp,            \* the normalized WAV of this invocation: "none", "exists", "deleted"
    duration,       \* local variable duration (tenths of a second)
    audio_len,      \* length of the audio stored in the normalized WAV
    features,       \* <<>> or <<the dict returned by extract_features>>
    raw,            \* <<>> or <<the predict_proba output inside predict>>
    predictions,    \* <<>> or <<the dict returned by ModelService.predict>>
    result,         \* <<>> or <<the dict analyze_audio returns>>
    outcome,        \* "none", "returned", "http400"
    exc,            \* the exception being handled: "none" or its stage
    calls,          \* the collaborators called so far in this invocation
    load_calls,     \* load_model calls made by this invocation
    init_at_start,  \* value of self.initialized when the invocation began
    db,             \* database save of this invocation: "none", "saved", "failed"
    \* two runs of feature-vector construction and prediction on one audio
    fv_pc,          \* "idle", "build", "classify", "done"
    blocks,         \* lengths of the feature blocks extracted from the audio
    vecs,           \* features["model_features"] of each run so far
    fvs,            \* the vector _prepare_features handed to the classifier, per run
    runs,           \* per run: [proba, predictions, result]
    \* two uploads handled by unified_analysis on one event loop
    clock,          \* int(time.time())
    files,          \* /tmp/audio_<t>.wav for each t: "absent", "empty" or the bytes stored
    ep_pc,          \* position of each request in unified_analysis
    temp_path,      \* local variable temp_path of each request (the t of its name)
    handle,         \* the open file object of each request: "none", "live", "orphan"
    analysed,       \* what the analysis of each request read from temp_path
    \* one request at a time handled by predict_unified (fastapi_app_improved.py)
    un_pc,          \* "down", "ready", then the position inside predict_unified
    un_env,         \* module globals after startup: [research, opensmile, librosa, model_type, model, hf_token]
    un_req,         \* the request: [input, dur, readable]
    un_tmp,         \* tmp_path: "none", "exists", "deleted"
    un_trace,       \* the stages run for this request: <<[stage, outcome], ...>>
    un_resp         \* <<>> or <<the response>>

svc_vars == <<initialized, ms, pc, req, tmp, duration, audio_len, features, raw,
              predictions, result, outcome, exc, calls, load_calls, init_at_start, db>>

fv_vars == <<fv_pc, blocks, vecs, fvs, runs>>

ep_vars == <<clock, files, ep_pc, temp_path, handle, analysed>>

un_vars == <<un_pc, un_env, un_req, un_tmp, un_trace, un_resp>>

vars == <<svc_vars, fv_vars, ep_vars, un_vars>>

NoEnv == [research |-> FALSE, opensmile |-> FALSE, librosa |-> FALSE,
          model_type |-> "None", model |-> FALSE, hf_token |-> FALSE]

NoUnReq == [input |-> "none", dur |-> 0, readable |-> TRUE]

\* largest value of the clock that is enumerated
MaxClock == 2

\* the two concurrent requests; request r uploads the bytes r
Requests == {1, 2}

NoBlocks == [source |-> "none", opensmile |-> 0, additional |-> 0, basic |-> 0, concat_ok |-> TRUE]

TaskTypes == {"breath", "speech"}

\* min_duration arguments and input clip lengths that are enumerated
\* (tenths of a second): 0.5 is the default, 31 s exceeds the speech cap
MinDurations == {MIN_DURATION, 10}

InDurations == {2, 5, 310}

NoReq == [task_type |-> "breath", min_duration |-> MIN_DURATION, in_duration |-> 0]

\* settings.PREFER_HF (config.py default)
PREFER_HF == FALSE

\* the keys of the dict built at lines 232-243
ResultFields ==
    {"predictions", "label", "simplified_label", "confidence", "possible_conditions",
     "source", "processing_time", "text_summary", "original_label", "low_confidence"}

\* the keys of the two fallback dicts (lines 61-68 and 280-287)
FallbackFields ==
    {"predictions", "label", "confidence", "source", "processing_time", "text_summary"}

\* lines 61-68 / 280-287; fields outside FallbackFields are absent from the
\* dict and hold placeholders here
FallbackResult(template) ==
    [fields |-> FallbackFields,
     predictions |-> [k |-> <<"clear">>, v |-> <<1>>, d |-> 1],
     label |-> "clear",
     simplified_label |-> "",
     confidence |-> R(1, 1),
     possible_conditions |-> <<>>,
     source |-> "demo_fallback",
     processing_time |-> "zero",
     text_summary |-> [template |-> template, label |-> "clear", confidence |-> R(1, 1),
                       conditions |-> <<>>, disclaimer |-> FALSE],
     original_label |-> "",
     low_confidence |-> FALSE]

LowConfidence_loose(confidence) == RLt(confidence, R(80, 100))

\* line 242: "low_confidence": confidence < 0.75
LowConfidence(confidence) == RLt(confidence, R(75, 100))

\* lines 219-247: the result dict for the final state st of the rules
BuildResult(st, task_type) ==
    LET possible_conditions == possible_conditions_of(st.label)
        summary == generate_summary(st.label, st.confidence, task_type, possible_conditions)
    IN  [fields |-> ResultFields \cup (IF task_type = "speech" THEN {"transcription"} ELSE {}),
         predictions |-> st.class_probs,
         label |-> st.label,
         simplified_label |-> st.label,
         confidence |-> st.confidence,
         possible_conditions |-> possible_conditions,
         source |-> IF PREFER_HF THEN "huggingface" ELSE "local",
         processing_time |-> "measured",
         text_summary |-> [template |-> task_type, label |-> summary.label,
                           confidence |-> summary.confidence,
                           conditions |-> summary.conditions, disclaimer |-> summary.disclaimer],
         original_label |-> st.original_label,
         low_confidence |-> LowConfidence(st.confidence)]

\* AnalysisService.__init__: load_model is tried once; a failure is logged
Init ==
    /\ \E out \in load_model(ModelServiceInit) :
          /\ ms = out.ms
          /\ initialized = out.ok
    /\ pc = "idle"
    /\ req = NoReq
    /\ tmp = "none"
    /\ duration = 0
    /\ audio_len = 0
    /\ features = <<>>
    /\ raw = <<>>
    /\ predictions = <<>>
    /\ result = <<>>
    /\ outcome = "none"
    /\ exc = "none"
    /\ calls = <<>>
    /\ load_calls = 0
    /\ init_at_start = FALSE
    /\ db = "none"
    /\ fv_pc = "idle"
    /\ blocks = NoBlocks
    /\ vecs = <<>>
    /\ fvs = <<>>
    /\ runs = <<>>
    /\ clock = 0
    /\ files = [t \in 0..MaxClock |-> "absent"]
    /\ ep_pc = [r \in Requests |-> "start"]
    /\ temp_path = [r \in Requests |-> 0]
    /\ handle = [r \in Requests |-> "none"]
    /\ analysed = [r \in Requests |-> "none"]
    /\ un_pc = "down"
    /\ un_env = NoEnv
    /\ un_req = NoUnReq
    /\ un_tmp = "none"
    /\ un_trace = <<>>
    /\ un_resp = <<>>

Begin_always_reload ==
    /\ pc = "idle"
    /\ UNCHANGED <<fv_vars, ep_vars, un_vars>>
    /\ init_at_start' = initialized
    /\ \E t \in TaskTypes, m \in MinDurations, len \in InDurations :
          req' = [task_type |-> t, min_duration |-> m, in_duration |-> len]
    /\ \E out \in load_model(ms) :
          /\ ms' = out.ms
          /\ load_calls' = load_calls + 1
          /\ IF out.ok
             THEN /\ initialized' = TRUE
                  /\ pc' = "normalize"
                  /\ UNCHANGED <<result, outcome>>
             ELSE /\ result' = <<FallbackResult("demo_mode")>>
                  /\ outcome' = "returned"
                  /\ pc' = "done"
                  /\ UNCHANGED initialized
    /\ UNCHANGED <<tmp, duration, audio_len, features, raw, predictions, exc, calls, db>>

Begin_no_return ==
    /\ pc = "idle"
    /\ UNCHANGED <<fv_vars, ep_vars, un_vars>>
    /\ init_at_start' = initialized
    /\ \E t \in TaskTypes, m \in MinDurations, len \in InDurations :
          req' = [task_type |-> t, min_duration |-> m, in_duration |-> len]
    /\ IF initialized
       THEN /\ pc' = "normalize"
            /\ UNCHANGED <<initialized, ms, result, outcome, load_calls>>
       ELSE \E out \in load_model(ms) :
              /\ ms' = out.ms
              /\ load_calls' = load_calls + 1
              /\ initialized' = out.ok
              /\ pc' = "normalize"
              /\ UNCHANGED <<result, outcome>>
    /\ UNCHANGED <<tmp, duration, audio_len, features, raw, predictions, exc, calls, db>>

\* analyze_audio is called; lines 52-68: retry load_model when not initialized
Begin ==
    /\ pc = "idle"
    /\ UNCHANGED <<fv_vars, ep_vars, un_vars>>
    /\ init_at_start' = initialized
    /\ \E t \in TaskTypes, m \in MinDurations, len \in InDurations :
          req' = [task_type |-> t, min_duration |-> m, in_duration |-> len]
    /\ IF initialized
       THEN /\ pc' = "normalize"
            /\ UNCHANGED <<initialized, ms, result, outcome, load_calls>>
       ELSE \E out \in load_model(ms) :
              /\ ms' = out.ms
              /\ load_calls' = load_calls + 1
              /\ IF out.ok
                 THEN /\ initialized' = TRUE
                      /\ pc' = "normalize"
                      /\ UNCHANGED <<result, outcome>>
                 ELSE /\ result' = <<FallbackResult("demo_mode")>>
                      /\ outcome' = "returned"
                      /\ pc' = "done"
                      /\ UNCHANGED initialized
    /\ UNCHANGED <<tmp, duration, audio_len, features, raw, predictions, exc, calls, db>>

TooShort_inclusive(d, min_duration) == d <= min_duration

\* normalize_audio line 116: duration < min_duration
TooShort(d, min_duration) == d < min_duration

\* line 76 and normalize_audio: the input is missing (no temporary file is
\* made), the conversion fails or the clip is shorter than min_duration
\* (the handler at lines 123-126 removes the file), or the file is returned
NormalizeAudio ==
    /\ pc = "normalize"
    /\ UNCHANGED <<fv_vars, ep_vars, un_vars>>
    /\ calls' = Append(calls, "normalize_audio")
    /\ \/ /\ tmp' = "none"
          /\ exc' = "input_not_found"
          /\ pc' = "except_normalization"
          /\ UNCHANGED <<duration, audio_len>>
       \/ /\ tmp' = "deleted"
          /\ exc' = "conversion_failed"
          /\ pc' = "except_normalization"
          /\ UNCHANGED <<duration, audio_len>>
       \/ /\ TooShort(req.in_duration, req.min_duration)
          /\ tmp' = "deleted"
          /\ exc' = "too_short"
          /\ pc' = "except_normalization"
          /\ UNCHANGED <<duration, audio_len>>
       \/ /\ ~TooShort(req.in_duration, req.min_duration)
          /\ tmp' = "exists"
          /\ duration' = req.in_duration
          /\ audio_len' = req.in_duration
          /\ pc' = "trim"
          /\ UNCHANGED exc
    /\ UNCHANGED <<initialized, ms, req, features, raw, predictions, result, outcome, load_calls,
                   init_at_start, db>>

Trim_duration_only ==
    /\ pc = "trim"
    /\ UNCHANGED <<fv_vars, ep_vars, un_vars>>
    /\ IF req.task_type = "speech" /\ duration > max_speech_duration
       THEN \/ /\ duration' = max_speech_duration
               /\ pc' = "extract"
               /\ UNCHANGED <<audio_len, exc>>
            \/ /\ exc' = "trim"
               /\ pc' = "except_other"
               /\ UNCHANGED <<audio_len, duration>>
       ELSE /\ pc' = "extract"
            /\ UNCHANGED <<audio_len, duration, exc>>
    /\ UNCHANGED <<initialized, ms, req, tmp, features, raw, predictions, result, outcome,
                   calls, load_calls, init_at_start, db>>

\* lines 80-88: speech longer than 30 s is cut to its first 30 s and written
\* back; loading or writing may raise
Trim ==
    /\ pc = "trim"
    /\ UNCHANGED <<fv_vars, ep_vars, un_vars>>
    /\ IF req.task_type = "speech" /\ duration > max_speech_duration
       THEN \/ /\ audio_len' = Min(audio_len, max_speech_duration)
               /\ duration' = max_speech_duration
               /\ pc' = "extract"
               /\ UNCHANGED exc
            \/ /\ exc' = "trim"
               /\ pc' = "except_other"
               /\ UNCHANGED <<audio_len, duration>>
       ELSE /\ pc' = "extract"
            /\ UNCHANGED <<audio_len, duration, exc>>
    /\ UNCHANGED <<initialized, ms, req, tmp, features, raw, predictions, result, outcome,
                   calls, load_calls, init_at_start, db>>

Extract_twice ==
    /\ pc = "extract"
    /\ UNCHANGED <<fv_vars, ep_vars, un_vars>>
    /\ calls' = Append(calls, "extract_features")
    /\ \/ /\ \E ind \in IndicatorSets, pat \in FeaturePatterns :
                features' = <<extract_features(audio_len, ind, pat)>>
          /\ pc' = "predict"
          /\ UNCHANGED exc
       \/ /\ exc' = "extract_features"
          /\ pc' = IF exc = "none" THEN "extract" ELSE "except_other"
          /\ UNCHANGED features
    /\ UNCHANGED <<initialized, ms, req, tmp, duration, audio_len, raw, predictions, result,
                   outcome, load_calls, init_at_start, db>>

\* line 91: extract_features(normalized_path, task_type) returns or raises
Extract ==
    /\ pc = "extract"
    /\ UNCHANGED <<fv_vars, ep_vars, un_vars>>
    /\ calls' = Append(calls, "extract_features")
    /\ \/ /\ \E ind \in IndicatorSets, pat \in FeaturePatterns :
                features' = <<extract_features(audio_len, ind, pat)>>
          /\ pc' = "predict"
          /\ UNCHANGED exc
       \/ /\ exc' = "extract_features"
          /\ pc' = "except_other"
          /\ UNCHANGED features
    /\ UNCHANGED <<initialized, ms, req, tmp, duration, audio_len, raw, predictions, result,
                   outcome, load_calls, init_at_start, db>>

\* line 104: ModelService.predict(features) returns or raises (model is None,
\* or the classifier rejects the vector)
Predict ==
    /\ pc = "predict"
    /\ UNCHANGED <<fv_vars, ep_vars, un_vars>>
    /\ calls' = Append(calls, "predict")
    /\ \/ /\ ms.model.loaded
          /\ \E proba \in RawProbas(ms.model.n_classes) :
                /\ raw' = <<proba>>
                /\ predictions' = <<predict(ms, features[1], proba)>>
          /\ pc' = "cleanup"
          /\ UNCHANGED exc
       \/ /\ exc' = "predict"
          /\ pc' = "except_other"
          /\ UNCHANGED <<raw, predictions>>
    /\ UNCHANGED <<initialized, ms, req, tmp, duration, audio_len, features, result, outcome,
                   load_calls, init_at_start, db>>

\* lines 107-111: os.remove(normalized_path); a failing remove is only logged
\* and is not modelled
Cleanup ==
    /\ pc = "cleanup"
    /\ UNCHANGED <<fv_vars, ep_vars, un_vars>>
    /\ tmp' = "deleted"
    /\ pc' = "decide"
    /\ UNCHANGED <<initialized, ms, req, duration, audio_len, features, raw, predictions,
                   result, outcome, exc, calls, load_calls, init_at_start, db>>

\* lines 113-249: the decision rules, condition mapping, summary and result
Decide ==
    /\ pc = "decide"
    /\ UNCHANGED <<fv_vars, ep_vars, un_vars>>
    /\ duration' = features[1].duration
    /\ LET st == DecisionRules(req.task_type, features[1], predictions[1])
       IN  IF HealthyRuleRaises(st)
           THEN /\ exc' = "decide"
                /\ pc' = "except_other"
                /\ calls' = Append(calls, "decision_rules")
                /\ UNCHANGED result
           ELSE /\ result' = <<BuildResult(st, req.task_type)>>
                /\ calls' = calls \o <<"decision_rules", "condition_mapping", "summary">>
                /\ pc' = "save"
                /\ UNCHANGED exc
    /\ UNCHANGED <<initialized, ms, req, tmp, audio_len, features, raw, predictions, outcome,
                   load_calls, init_at_start, db>>

Save_failure_masks ==
    /\ pc = "save"
    /\ UNCHANGED <<fv_vars, ep_vars, un_vars>>
    /\ calls' = Append(calls, "save_analysis_result")
    /\ \/ db' = "saved" /\ UNCHANGED result
       \/ db' = "failed" /\ result' = <<FallbackResult("analysis_failed")>>
    /\ outcome' = "returned"
    /\ pc' = "done"
    /\ UNCHANGED <<initialized, ms, req, tmp, duration, audio_len, features, raw, predictions,
                   exc, load_calls, init_at_start>>

\* lines 251-270: the database save succeeds or raises (swallowed); return
Save ==
    /\ pc = "save"
    /\ UNCHANGED <<fv_vars, ep_vars, un_vars>>
    /\ calls' = Append(calls, "save_analysis_result")
    /\ db' \in {"saved", "failed"}
    /\ outcome' = "returned"
    /\ pc' = "done"
    /\ UNCHANGED <<initialized, ms, req, tmp, duration, audio_len, features, raw, predictions,
                   result, exc, load_calls, init_at_start>>

\* lines 272-276: except AudioNormalizationError -> HTTPException(400)
ExceptNormalization ==
    /\ pc = "except_normalization"
    /\ UNCHANGED <<fv_vars, ep_vars, un_vars>>
    /\ outcome' = "http400"
    /\ pc' = "done"
    /\ UNCHANGED <<initialized, ms, req, tmp, duration, audio_len, features, raw, predictions,
                   result, exc, calls, load_calls, init_at_start, db>>

\* lines 277-305: except Exception -> the fallback dict is saved and returned
ExceptOther ==
    /\ pc = "except_other"
    /\ UNCHANGED <<fv_vars, ep_vars, un_vars>>
    /\ result' = <<FallbackResult("analysis_failed")>>
    /\ calls' = Append(calls, "save_analysis_result")
    /\ db' \in {"saved", "failed"}
    /\ outcome' = "returned"
    /\ pc' = "done"
    /\ UNCHANGED <<initialized, ms, req, tmp, duration, audio_len, features, raw, predictions,
                   exc, load_calls, init_at_start>>

\* the invocation is over; the service waits for the next request
Return ==
    /\ pc = "done"
    /\ UNCHANGED <<fv_vars, ep_vars, un_vars>>
    /\ pc' = "idle"
    /\ req' = NoReq
    /\ tmp' = "none"
    /\ duration' = 0
    /\ audio_len' = 0
    /\ features' = <<>>
    /\ raw' = <<>>
    /\ predictions' = <<>>
    /\ result' = <<>>
    /\ outcome' = "none"
    /\ exc' = "none"
    /\ calls' = <<>>
    /\ load_calls' = 0
    /\ init_at_start' = FALSE
    /\ db' = "none"
    /\ UNCHANGED <<initialized, ms>>

Next ==
    \/ Begin
    \/ NormalizeAudio
    \/ Trim
    \/ Extract
    \/ Predict
    \/ Cleanup
    \/ Decide
    \/ Save
    \/ ExceptNormalization
    \/ ExceptOther
    \/ Return

Spec == Init /\ [][Next]_vars


(***************************************************************************)
(* Properties.                                                             *)
(***************************************************************************)
Returned == pc = "done" /\ outcome = "returned"

\* the result dict was built by the decision rules (not a fallback)
DecisionMade == pc \in {"save", "done"} /\ exc = "none" /\ predictions # <<>> /\ result # <<>>

\* the label the rules started from (line 117)
ModelLabel == DecisionStart(predictions[1]).label

ModelConfidence == DecisionStart(predictions[1]).confidence

\* some rule changed the label
Overridden == DecisionMade /\ result[1].label # ModelLabel

\* C1: whenever normalize_audio created the normalized WAV, the file no
\* longer exists when analyze_audio returns or raises, on every exit path.
C1_TempFileRemovedOnExit == pc = "done" => tmp # "exists"

\* C2: when extract_features raises, analyze_audio ends in an error and
\* returns no prediction-shaped result with a label and a confidence.
C2_ExtractFailureNotMasked ==
    (pc = "done" /\ exc = "extract_features") => (outcome # "returned" /\ result = <<>>)

\* C3: a clip shorter than min_duration makes normalize_audio raise, which
\* analyze_audio surfaces as HTTP 400 without calling extract_features or
\* predict; a clip is rejected as too short only when strictly shorter.
C3_ShortAudioRejected ==
    /\ (pc = "done" /\ calls # <<>> /\ req.in_duration < req.min_duration)
          => /\ outcome = "http400"
             /\ result = <<>>
             /\ calls = <<"normalize_audio">>
             /\ tmp # "exists"
    /\ exc = "too_short" => req.in_duration < req.min_duration
    /\ (outcome = "http400") => exc \in {"input_not_found", "conversion_failed", "too_short"}

C3_Witness ==
    /\ pc = "done" /\ exc = "too_short" /\ outcome = "http400"
    /\ req.in_duration < req.min_duration

\* C4: an invocation that starts uninitialized calls load_model exactly once;
\* if that fails it returns the 'demo_fallback' result without normalizing,
\* extracting or predicting; if it succeeds initialized is true and the
\* pipeline runs.
C4_RetryOnceThenFallback ==
    pc # "idle" =>
        /\ load_calls = (IF init_at_start THEN 0 ELSE 1)
        /\ (~init_at_start /\ ~initialized)
              => /\ Returned
                 /\ result # <<>> /\ result[1].source = "demo_fallback"
                 /\ calls = <<>>
                 /\ tmp = "none"
        /\ (~init_at_start /\ initialized /\ pc = "done")
              => (calls # <<>> /\ calls[1] = "normalize_audio")

C4_Witness ==
    /\ Returned /\ ~init_at_start /\ ~initialized /\ load_calls = 1
    /\ result[1].source = "demo_fallback"

C6_ConfidenceRange ==
    DecisionMade =>
        /\ result[1].confidence.d > 0
        /\ result[1].confidence.n >= 0
        /\ result[1].confidence.n <= result[1].confidence.d
        /\ result[1].low_confidence <=> (100 * result[1].confidence.n < 75 * result[1].confidence.d)

C6_Witness ==
    /\ DecisionMade /\ Overridden
    /\ ~result[1].low_confidence
    /\ 100 * result[1].confidence.n < 80 * result[1].confidence.d

\* C7: after any label override the reported predictions are non-negative and
\* sum to 1.
C7_PredictionsSumToOne ==
    Overridden =>
        /\ result[1].predictions.d > 0
        /\ \A i \in 1..Len(result[1].predictions.k) : result[1].predictions.v[i] >= 0
        /\ SumRange(result[1].predictions.v, 1, Len(result[1].predictions.k))
             = result[1].predictions.d

C7_Witness ==
    /\ Overridden /\ pc = "done"
    /\ result[1].predictions.d # ProbDen
    /\ Len(result[1].predictions.k) > 1

\* C8: whenever a rule overrides the label, the final label is a key of the
\* reported predictions, carries their highest probability, and the reported
\* confidence equals predictions[label].
C8_PredictionsReflectOverride ==
    Overridden =>
        /\ DictHas(result[1].predictions, result[1].label)
        /\ \A i \in 1..Len(result[1].predictions.k) :
              result[1].predictions.v[i] <= DictGet(result[1].predictions, result[1].label)
        /\ REq(result[1].confidence,
               R(DictGet(result[1].predictions, result[1].label), result[1].predictions.d))

\* C9: original_label is the argmax label of the raw predict_proba output,
\* before the adjustment in ModelService and before any decision rule.
C9_OriginalLabelIsRawArgmax ==
    DecisionMade =>
        result[1].original_label
            = MapGet(ms.inv_label_map, ArgMax(raw[1].p, ms.model.n_classes),
                     IndexName(ArgMax(raw[1].p, ms.model.n_classes)))

\* C10: every dict analyze_audio returns, fallbacks included, has the fields
\* predictions, label, confidence, possible_conditions, text_summary,
\* low_confidence, original_label and processing_time.
C10_ResultHasAllFields ==
    Returned =>
        {"predictions", "label", "confidence", "possible_conditions", "text_summary",
         "low_confidence", "original_label", "processing_time"} \subseteq result[1].fields

\* the indicator tuples of the two rule-priority examples
BurstIndicators(f) ==
    f.energy_variation = 3000 /\ f.harsh_sound_ratio = 150 /\ f.onset_rate = 1000

CalmIndicators(f) ==
    f.energy_variation = 500 /\ f.onset_rate = 500 /\ f.harsh_sound_ratio = 20

\* C11: for energy_variation=3.0, harsh_sound_ratio=0.15, onset_rate=1.0 the
\* decision rules return label 'cough' with confidence >= 0.85, whatever the
\* raw classifier output.
C11_BurstIsCough ==
    (DecisionMade /\ BurstIndicators(features[1]))
        => (result[1].label = "cough" /\ ~RLt(result[1].confidence, R(85, 100)))

\* C12: for energy_variation=0.5, onset_rate=0.5, harsh_sound_ratio=0.02 the
\* decision rules return label 'normal', whatever the raw classifier output.
C12_CalmIsNormal ==
    (DecisionMade /\ CalmIndicators(features[1])) => result[1].label = "normal"

\* C13: the decision rules are total: for every non-empty class-probability
\* map, a map whose only key is 'Healthy' included, they complete with a
\* label and a confidence and never raise.
C13_DecisionTotal ==
    /\ exc # "decide"
    /\ (pc \in {"save", "done"} /\ predictions # <<>>) => DecisionMade

\* C17: once load_model has succeeded (initialized is true), no step of
\* analyze_audio or predict assigns the classifier or the label map again,
\* load_model is not invoked again, and initialized never returns to false.
C17_ModelFrozenAfterLoad ==
    [][initialized => /\ initialized'
                      /\ ms' = ms
                      /\ load_calls' \in {load_calls, 0}]_vars

\* a request served by a service that was already initialized ran through
\* predict and the decision rules
C17_Witness == init_at_start /\ initialized /\ DecisionMade /\ pc = "done"

\* the stages of one invocation in pipeline order (lines 70-243)
Pipeline ==
    <<"normalize_audio", "extract_features", "predict", "decision_rules",
      "condition_mapping", "summary">>

IsStage(c) == \E i \in 1..Len(Pipeline) : Pipeline[i] = c

\* the stages this invocation has started, in the order they started
StagesRun == SelectSeq(calls, IsStage)

\* the stage an exception came out of
FailedStage ==
    CASE exc \in {"input_not_found", "conversion_failed", "too_short"} -> "normalize_audio"
      [] exc = "trim" -> "normalize_audio"
      [] exc = "extract_features" -> "extract_features"
      [] exc = "predict" -> "predict"
      [] exc = "decide" -> "decision_rules"
      [] OTHER -> "none"

\* C18: within one analyze_audio invocation the stages run strictly in
\* pipeline order, each only after its predecessor succeeded: normalize_audio,
\* extract_features, predict, decision rules, condition mapping and summary;
\* no stage runs twice or out of order.
C18_StagesInPipelineOrder ==
    /\ Len(StagesRun) <= Len(Pipeline)
    /\ StagesRun = SubSeq(Pipeline, 1, Len(StagesRun))
    /\ exc # "none" => StagesRun[Len(StagesRun)] = FailedStage
    /\ Len(StagesRun) >= 2 => tmp # "none"
    /\ Len(StagesRun) >= 3 => features # <<>>
    /\ Len(StagesRun) >= 4 => predictions # <<>>
    /\ Len(StagesRun) >= 5 => result # <<>>

\* an invocation that ran all six stages and returned
C18_Witness == pc = "done" /\ StagesRun = Pipeline /\ outcome = "returned"

\* the class indices of the loaded classifier that the label map lacks
UnmappedIndices == {i \in 0..(ms.model.n_classes - 1) : i \notin DOMAIN ms.inv_label_map}

\* C19: when the classifier yields a class index absent from the label map,
\* prediction succeeds and the class is reported under the stringified
\* numeric index, as key of the probability map and, when it is the argmax,
\* as the predicted label.
C19_UnmappedIndexStringified ==
    predictions # <<>> =>
        \A i \in UnmappedIndices :
            LET cp == predictions[1].class_probs
            IN  /\ cp.k[i + 1] = ToString(i)
                /\ (\A j \in 1..Len(cp.k) : j # i + 1 => cp.v[j] < cp.v[i + 1])
                       => predictions[1].predicted_class = ToString(i)

\* C20: the condition mapping never fails and never yields an empty list:
\* possible_conditions is the static list registered for the lower-cased
\* final label, and exactly ['Unspecified'] for a label with no entry.
C20_ConditionsMapped ==
    DecisionMade =>
        LET l == result[1].label
            conditions == result[1].possible_conditions
        IN  /\ conditions # <<>>
            /\ l \in {"normal", "Normal"} => conditions = <<"Healthy">>
            /\ l = "abnormal" => conditions = <<"Bronchiectasis", "COPD", "Pneumonia">>
            /\ l = "cough" => conditions = <<"URTI", "Bronchitis", "Post-COVID irritation">>
            /\ l = "heavy_breathing" => conditions = <<"COPD", "Asthma", "Pneumonia">>
            /\ l = "throat_clearing" => conditions = <<"Post-COVID", "Allergy", "Reflux">>
            /\ l \in {"crackles", "COPD", "URTI", "Healthy", "Unknown", "class_1"}
                   => conditions = <<"Unspecified">>
            /\ l \in {"normal", "Normal", "abnormal", "cough", "heavy_breathing",
                      "throat_clearing", "crackles", "COPD", "URTI", "Healthy",
                      "Unknown", "class_1"}

\* a final label that is registered only in its lower-cased form
C20_Witness ==
    /\ DecisionMade
    /\ result[1].label = "Normal"
    /\ result[1].possible_conditions = <<"Healthy">>

(***************************************************************************)
(* Feature-vector construction (extract_features lines 289-346) and        *)
(* _prepare_features, run twice on the same audio with the same model.     *)
(* A vector is described by how many of its entries come from each block   *)
(* and from padding; draw names the sample np.random.normal returned.      *)
(* The final standardisation (lines 367-369) maps entries one to one and   *)
(* keeps these counts.                                                     *)
(***************************************************************************)
\* how many different samples of the padding noise are told apart
NoiseDraws == 2

\* enumerated lengths of opensmile_features, additional_features and
\* basic_features (eGeMAPS functionals give 88, the spectral block 32, the
\* indicator block 18)
OpensmileLens == {88, 130}

AdditionalLens == {0, 32}

BasicLens == {0, 18}

\* enumerated lengths of a model_features array a caller passes to predict
CallerLens == {0, 119, 120, 121, 138}

Vec(o, a, b) ==
    [opensmile |-> o, additional |-> a, basic |-> b, zeros |-> 0, noise |-> 0, draw |-> 0]

VecLen(v) == v.opensmile + v.additional + v.basic + v.zeros + v.noise

\* v[:n]
Truncate(v, n) ==
    LET o == Min(v.opensmile, n)
        a == Min(v.additional, n - o)
        b == Min(v.basic, n - o - a)
        x == Min(v.noise, n - o - a - b)
        z == Min(v.zeros, n - o - a - b - x)
    IN  [opensmile |-> o, additional |-> a, basic |-> b, zeros |-> z, noise |-> x,
         draw |-> IF x = 0 THEN 0 ELSE v.draw]

\* np.pad(v, (0, k)), constant 0
PadZeros(v, k) == [v EXCEPT !.zeros = @ + k]

\* np.concatenate([v, np.random.normal(0, 0.001, k)])
PadNoise(v, k, draw) == [v EXCEPT !.noise = @ + k, !.draw = draw]

\* lines 289-336: features["model_features"] from the three blocks
model_features(blk, draw) ==
    LET combined_features ==
            IF blk.concat_ok THEN Vec(blk.opensmile, blk.additional, blk.basic)
            ELSE Vec(blk.opensmile, 0, 0)
    IN  IF VecLen(combined_features) > N_FEATURES
        THEN LET opensmile_count == Min(88, blk.opensmile)
                 additional_count == Min(32, blk.additional)
                 selected == Vec(opensmile_count, additional_count, 0)
                 remaining_slots == N_FEATURES - VecLen(selected)
                 filled == IF remaining_slots > 0 /\ blk.basic > 0
                           THEN [selected EXCEPT !.basic = Min(remaining_slots, blk.basic)]
                           ELSE selected
             IN  IF VecLen(filled) < N_FEATURES
                 THEN PadZeros(filled, N_FEATURES - VecLen(filled))
                 ELSE Truncate(filled, N_FEATURES)
        ELSE IF VecLen(combined_features) < N_FEATURES
        THEN PadNoise(combined_features, N_FEATURES - VecLen(combined_features), draw)
        ELSE combined_features

prepare_features_truncate_only(v) ==
    IF VecLen(v) > N_FEATURES THEN Truncate(v, N_FEATURES) ELSE v

\* ModelService._prepare_features lines 164-174
prepare_features(v) ==
    IF VecLen(v) < N_FEATURES THEN PadZeros(v, N_FEATURES - VecLen(v))
    ELSE IF VecLen(v) > N_FEATURES THEN Truncate(v, N_FEATURES)
    ELSE v

\* the feature dict of a run: the indicators are computed from the waveform
\* alone and are the same in both runs
RunFeatures(blk) == extract_features(50, blk.ind, [e |-> 0, s |-> 0, o |-> 0, a |-> 1])

\* predict and the decision rules on one classifier output: what
\* analyze_audio returns, <<>> when the rules raise
RunResult(blk, proba) ==
    LET preds == predict(ms, RunFeatures(blk), proba)
        st == DecisionRules("breath", RunFeatures(blk), preds)
    IN  [proba |-> proba,
         predictions |-> preds,
         result |-> IF HealthyRuleRaises(st) THEN <<>> ELSE <<BuildResult(st, "breath")>>]

\* an audio file is chosen; extract_features will be run on it twice
FvBegin ==
    /\ fv_pc = "idle"
    /\ initialized
    /\ \E o \in OpensmileLens, a \in AdditionalLens, b \in BasicLens,
          ok \in BOOLEAN, ind \in IndicatorSets :
          blocks' = [source |-> "extract_features", opensmile |-> o, additional |-> a,
                     basic |-> b, concat_ok |-> ok, ind |-> ind]
    /\ fv_pc' = "build"
    /\ UNCHANGED <<vecs, fvs, runs, svc_vars, ep_vars, un_vars>>

\* extract_features builds model_features; the noise padding draws a sample
FvExtract ==
    /\ fv_pc = "build"
    /\ \E draw \in 1..NoiseDraws :
          vecs' = Append(vecs, model_features(blocks, draw))
    /\ fv_pc' = "classify"
    /\ UNCHANGED <<blocks, fvs, runs, svc_vars, ep_vars, un_vars>>

\* ModelService.predict on the vector just built, then the decision rules.
\* predict_proba is a function of the vector: equal vectors, equal output.
FvPredict ==
    /\ fv_pc = "classify"
    /\ LET fv == prepare_features(vecs[Len(vecs)])
       IN  /\ fvs' = Append(fvs, fv)
           /\ \E proba \in RawProbas(ms.model.n_classes) :
                 /\ (runs # <<>> /\ fvs[1] = fv) => proba = runs[1].proba
                 /\ runs' = Append(runs, RunResult(blocks, proba))
    /\ fv_pc' = IF runs = <<>> /\ blocks.source = "extract_features" THEN "build" ELSE "done"
    /\ UNCHANGED <<blocks, vecs, svc_vars, ep_vars, un_vars>>

\* predict called with a model_features array of the caller's making
FvCallerVector ==
    /\ fv_pc = "idle"
    /\ initialized
    /\ \E len \in CallerLens, ind \in IndicatorSets :
          /\ blocks' = [source |-> "caller", opensmile |-> len, additional |-> 0,
                        basic |-> 0, concat_ok |-> TRUE, ind |-> ind]
          /\ vecs' = <<Vec(len, 0, 0)>>
    /\ fv_pc' = "classify"
    /\ UNCHANGED <<fvs, runs, svc_vars, ep_vars, un_vars>>

FvReturn ==
    /\ fv_pc = "done"
    /\ fv_pc' = "idle"
    /\ blocks' = NoBlocks
    /\ vecs' = <<>>
    /\ fvs' = <<>>
    /\ runs' = <<>>
    /\ UNCHANGED <<svc_vars, ep_vars, un_vars>>

NextFv ==
    \/ FvBegin
    \/ FvExtract
    \/ FvPredict
    \/ FvCallerVector
    \/ FvReturn

SpecFv == Init /\ [][NextFv]_vars

\* C14: for all lengths of the functional, spectral and indicator blocks the
\* model feature vector extract_features produces has exactly 120 entries on
\* every branch (longer, shorter, exactly 120, concatenation failure), and
\* the vector _prepare_features hands to the classifier has exactly 120.
C14_VectorLength120 ==
    /\ blocks.source = "extract_features"
           => \A i \in 1..Len(vecs) : VecLen(vecs[i]) = 120
    /\ \A i \in 1..Len(fvs) : VecLen(fvs[i]) = 120

\* after a concatenation failure the functional block alone was padded with
\* noise and handed to the classifier
C14_Witness ==
    /\ blocks.source = "extract_features"
    /\ ~blocks.concat_ok
    /\ fvs # <<>>
    /\ vecs[1].noise > 0
    /\ VecLen(fvs[1]) = 120

BytesOf(r) == IF r = 1 THEN "upload_1" ELSE "upload_2"

\* lines 97-98: temp_path = f"/tmp/audio_{int(time.time())}.wav" and
\* open(temp_path, "wb"), which creates the file or truncates the one there;
\* then await file.read()
EpOpen(r) ==
    /\ ep_pc[r] = "start"
    /\ temp_path' = [temp_path EXCEPT ![r] = clock]
    /\ files' = [files EXCEPT ![clock] = "empty"]
    /\ handle' = [handle EXCEPT ![r] = "live"]
    /\ ep_pc' = [ep_pc EXCEPT ![r] = "opened"]
    /\ UNCHANGED <<clock, analysed, svc_vars, fv_vars, un_vars>>

\* lines 99-101: buffer.write(content) from offset 0 (a validated upload is
\* at least 88200 bytes and is written through); a handle whose file was
\* removed writes to a file no path names; then await file.seek(0)
EpWrite(r) ==
    /\ ep_pc[r] = "opened"
    /\ files' = IF handle[r] = "live"
                THEN [files EXCEPT ![temp_path[r]] = BytesOf(r)]
                ELSE files
    /\ ep_pc' = [ep_pc EXCEPT ![r] = "written"]
    /\ UNCHANGED <<clock, temp_path, handle, analysed, svc_vars, fv_vars, un_vars>>

\* end of the with block and line 105: the file is closed and analysed;
\* normalize_audio raises when no file is at temp_path, and the finally
\* block then finds nothing to remove
EpAnalyze(r) ==
    /\ ep_pc[r] = "written"
    /\ handle' = [handle EXCEPT ![r] = "none"]
    /\ IF files[temp_path[r]] = "absent"
       THEN /\ analysed' = [analysed EXCEPT ![r] = "missing"]
            /\ ep_pc' = [ep_pc EXCEPT ![r] = "done"]
       ELSE /\ analysed' = [analysed EXCEPT ![r] = files[temp_path[r]]]
            /\ ep_pc' = [ep_pc EXCEPT ![r] = "analysed"]
    /\ UNCHANGED <<clock, files, temp_path, svc_vars, fv_vars, un_vars>>

\* lines 125-128, after the awaits of lines 105-113: os.remove(temp_path) when
\* the path exists; the open handles of other requests on it lose their path
EpCleanup(r) ==
    /\ ep_pc[r] = "analysed"
    /\ files' = [files EXCEPT ![temp_path[r]] = "absent"]
    /\ handle' = [q \in Requests |->
                    IF /\ q # r
                       /\ handle[q] = "live"
                       /\ temp_path[q] = temp_path[r]
                       /\ files[temp_path[r]] # "absent"
                    THEN "orphan" ELSE handle[q]]
    /\ ep_pc' = [ep_pc EXCEPT ![r] = "done"]
    /\ UNCHANGED <<clock, temp_path, analysed, svc_vars, fv_vars, un_vars>>

\* the response is sent; the client may upload again
EpReturn(r) ==
    /\ ep_pc[r] = "done"
    /\ ep_pc' = [ep_pc EXCEPT ![r] = "start"]
    /\ temp_path' = [temp_path EXCEPT ![r] = 0]
    /\ analysed' = [analysed EXCEPT ![r] = "none"]
    /\ UNCHANGED <<clock, files, handle, svc_vars, fv_vars, un_vars>>

\* a second passes
Tick ==
    /\ clock < MaxClock
    /\ clock' = clock + 1
    /\ UNCHANGED <<files, ep_pc, temp_path, handle, analysed, svc_vars, fv_vars, un_vars>>

NextEndpoint ==
    \/ \E r \in Requests : EpOpen(r)
    \/ \E r \in Requests : EpWrite(r)
    \/ \E r \in Requests : EpAnalyze(r)
    \/ \E r \in Requests : EpCleanup(r)
    \/ \E r \in Requests : EpReturn(r)
    \/ Tick

SpecEndpoint == Init /\ [][NextEndpoint]_vars

\* C16: concurrent requests do not interfere through temporary files: each
\* request analyses exactly the bytes it received, and no request overwrites
\* or deletes a temporary file another in-flight request still uses.
C16_NoTempFileInterference ==
    \A r \in Requests :
        /\ analysed[r] \in {"none", BytesOf(r)}
        /\ handle[r] # "orphan"
        /\ ep_pc[r] = "written" => files[temp_path[r]] = BytesOf(r)

\* the probability ModelService.predict returned for class index i, and the
\* raw predict_proba value of that class
Adjusted(i) == R(predictions[1].class_probs.v[i + 1], predictions[1].class_probs.d)

Raw(i) == R(raw[1].p[i], raw[1].d)

HealthyIndices == {i \in DOMAIN ms.inv_label_map : ms.inv_label_map[i] = "Healthy"}

\* C21: for every raw distribution with a positive 'Healthy' probability and
\* every indicator set whose cough score is at least 0.85, predict returns a
\* 'Healthy' probability strictly lower than the raw one, no respiratory
\* class lower than its raw value, and a distribution that sums to 1.
C21_StrongCoughLowersHealthy ==
    (predictions # <<>> /\ cough_score(features[1]) >= 204000)
        => /\ \A i \in HealthyIndices :
                 Raw(i).n > 0 => RLt(Adjusted(i), Raw(i))
           /\ \A i \in DOMAIN ms.inv_label_map :
                 (HealthyIndices # {} /\ ms.inv_label_map[i] \in RespNames)
                     => ~RLt(Adjusted(i), Raw(i))
           /\ SumTo([i \in 0..(ms.model.n_classes - 1) |-> Adjusted(i).n],
                    ms.model.n_classes - 1) = predictions[1].class_probs.d

\* C22: for every raw distribution and every indicator set whose cough score
\* is below 0.85, predict never returns a 'Healthy' probability lower than
\* the raw one and never a 'COPD' probability higher than the raw one.
C22_NormalNeverLowersHealthy ==
    (predictions # <<>> /\ cough_score(features[1]) < 204000)
        => \A i \in DOMAIN ms.inv_label_map :
              /\ ms.inv_label_map[i] = "Healthy" => ~RLt(Adjusted(i), Raw(i))
              /\ ms.inv_label_map[i] = "COPD" => ~RGt(Adjusted(i), Raw(i))

\* C26: for task type 'speech' with a normalized duration above 30 s the
\* audio handed to extract_features is its first 30 s; for 'speech' at or
\* below 30 s and for every 'breath' input it is handed over unchanged.
C26_SpeechTrimmedTo30s ==
    (pc = "extract" \/ features # <<>>) =>
        /\ audio_len = IF req.task_type = "speech" /\ req.in_duration > 300
                       THEN 300 ELSE req.in_duration
        /\ features # <<>> => features[1].duration = audio_len

\* a 31 s speech clip went through extract_features
C26_Witness ==
    /\ features # <<>>
    /\ req.task_type = "speech"
    /\ req.in_duration = 310
    /\ features[1].duration = 300

\* C28: a failure of the database save never changes, suppresses or replaces
\* what analyze_audio returns: the result is the one returned when the save
\* succeeds, on the normal path and on the fallback path.
C28_SaveFailureKeepsResult ==
    (Returned /\ db # "none") =>
        result = IF exc = "none"
                 THEN <<BuildResult(DecisionRules(req.task_type, features[1], predictions[1]),
                                    req.task_type)>>
                 ELSE <<FallbackResult("analysis_failed")>>

\* the save failed after the decision rules had built a result
C28_Witness == Returned /\ db = "failed" /\ DecisionMade

\* C29: given the same features and the same ModelService output, the final
\* label, confidence, possible_conditions and low_confidence are the same for
\* task types 'breath' and 'speech' and for every duration.
C29_TaskTypeIndependent ==
    DecisionMade =>
        \A t \in TaskTypes, d \in {5, 45, 310} :
            LET st == DecisionRules(t, [features[1] EXCEPT !.duration = d], predictions[1])
            IN  /\ ~HealthyRuleRaises(st)
                /\ st.label = result[1].label
                /\ st.confidence = result[1].confidence
                /\ possible_conditions_of(st.label) = result[1].possible_conditions
                /\ LowConfidence(st.confidence) = result[1].low_confidence

\* a speech request of 31 s whose spectral sharpness exceeds 0.9 was decided
C29_Witness ==
    /\ DecisionMade
    /\ req.task_type = "speech"
    /\ features[1].duration = 300
    /\ spectral_sharpness_gt(features[1].model_features, 9)

\* C30: the decision rules never modify the class probabilities they
\* received: on every non-fallback path the returned predictions equal the
\* class_probs of ModelService.predict.
C30_PredictionsUntouched ==
    DecisionMade => result[1].predictions = predictions[1].class_probs

\* cough_indicator is 0.2, a rule changed the label, the result was returned
C30_Witness ==
    /\ DecisionMade /\ pc = "done"
    /\ cough_indicator(features[1]) = 2
    /\ result[1].label = "normal"

(***************************************************************************)
(* POST /predict/unified (fastapi_app_improved.py): one request at a time  *)
(* walks through predict_unified.  Durations are in tenths of a second.    *)
(* A request carries the true duration of its audio and whether librosa    *)
(* can decode it; the module globals are fixed at startup.                 *)
(***************************************************************************)
UnDurations == {5, 12, 15, 30}

MinDurationUnified == 15

WhisperMinDuration == 10

UnInputs == {"none", "file", "audio_url", "file_url"}

UnRequests ==
    {NoUnReq} \cup
    [input : UnInputs \ {"none"}, dur : UnDurations, readable : BOOLEAN]

\* _load_model_and_labels: model_type and model from PREFER_HF, HF_API_TOKEN
\* and whether MODEL_PATH exists and joblib loads it
load_model_and_labels(prefer_hf, hf_token, loadable) ==
    IF prefer_hf /\ hf_token THEN [model_type |-> "huggingface", model |-> FALSE]
    ELSE IF loadable THEN [model_type |-> "sklearn", model |-> TRUE]
    ELSE IF hf_token THEN [model_type |-> "huggingface", model |-> FALSE]
    ELSE [model_type |-> "None", model |-> FALSE]

\* librosa.get_duration raises when librosa is missing or cannot decode the file
get_duration_raises(rq) == ~un_env.librosa \/ ~rq.readable

\* validate_audio_duration(file_path, min_duration): fail-open on any exception
validate_audio_duration(rq, min_duration) ==
    IF get_duration_raises(rq)
    THEN [valid |-> TRUE, duration |-> 0]
    ELSE [valid |-> rq.dur >= min_duration, duration |-> rq.dur]

UnResponse(status, error, source) ==
    [status |-> status, error |-> error, source |-> source]

\* the finally clause: os.remove(tmp_path) when the file exists
UnFinally == IF un_tmp = "exists" THEN "deleted" ELSE un_tmp

UnStage(stage, how) == [stage |-> stage, outcome |-> how]

\* the return statements of predict_unified: response, then the finally clause
UnAnswer(resp) ==
    /\ un_resp' = <<resp>>
    /\ un_tmp' = UnFinally
    /\ un_pc' = "done"

\* startup_event: the module globals are set once
UnStartup ==
    /\ un_pc = "down"
    /\ \E research \in BOOLEAN, opensmile \in BOOLEAN, librosa \in BOOLEAN,
          prefer_hf \in BOOLEAN, hf_token \in BOOLEAN, loadable \in BOOLEAN :
          LET m == load_model_and_labels(prefer_hf, hf_token, loadable)
          IN  un_env' = [research |-> research, opensmile |-> opensmile,
                         librosa |-> librosa, model_type |-> m.model_type,
                         model |-> m.model, hf_token |-> hf_token]
    /\ un_pc' = "ready"
    /\ UNCHANGED <<un_req, un_tmp, un_trace, un_resp, svc_vars, fv_vars, ep_vars>>

\* a request arrives: t0, tmp_path = None
UnRequest ==
    /\ un_pc = "ready"
    /\ \E rq \in UnRequests : un_req' = rq
    /\ un_tmp' = "none"
    /\ un_trace' = <<>>
    /\ un_resp' = <<>>
    /\ un_pc' = "resolve"
    /\ UNCHANGED <<un_env, svc_vars, fv_vars, ep_vars>>

UnResolve_no_input_check ==
    /\ un_pc = "resolve"
    /\ \/ /\ un_req.input \in {"file", "none"}
          /\ un_tmp' = "exists"
          /\ un_pc' = "validate"
          /\ UNCHANGED un_resp
       \/ /\ un_req.input \in {"audio_url", "file_url"}
          /\ \/ /\ un_tmp' = "exists"
                /\ un_pc' = "validate"
                /\ UNCHANGED un_resp
             \/ UnAnswer(UnResponse(200, "exception", "None"))
    /\ UNCHANGED <<un_env, un_req, un_trace, svc_vars, fv_vars, ep_vars>>

\* resolve the input into a local temp file, or answer 400 when there is none
UnResolve ==
    /\ un_pc = "resolve"
    /\ \/ /\ un_req.input = "file"
          /\ un_tmp' = "exists"
          /\ un_pc' = "validate"
          /\ UNCHANGED un_resp
       \/ /\ un_req.input \in {"audio_url", "file_url"}
          /\ \/ /\ un_tmp' = "exists"
                /\ un_pc' = "validate"
                /\ UNCHANGED un_resp
             \/ \* _download_to_tmp raises: the outer except answers
                UnAnswer(UnResponse(200, "exception", "None"))
       \/ /\ un_req.input = "none"
          /\ UnAnswer(UnResponse(400, "No audio provided (file or URL).", "None"))
    /\ UNCHANGED <<un_env, un_req, un_trace, svc_vars, fv_vars, ep_vars>>

\* validate_audio_duration(tmp_path, min_duration=1.5)
UnValidate ==
    /\ un_pc = "validate"
    /\ LET v == validate_audio_duration(un_req, MinDurationUnified)
       IN  IF ~v.valid
           THEN /\ UnAnswer(UnResponse(400, "Audio too short", "None"))
                /\ un_trace' = Append(un_trace, UnStage("validate_audio_duration", "rejected"))
           ELSE /\ un_pc' = "research"
                /\ un_trace' = Append(un_trace, UnStage("validate_audio_duration", "passed"))
                /\ UNCHANGED <<un_tmp, un_resp>>
    /\ UNCHANGED <<un_env, un_req, svc_vars, fv_vars, ep_vars>>

\* the research-grade analysis, when its modules were imported
UnResearch ==
    /\ un_pc = "research"
    /\ IF un_env.research
       THEN \/ /\ UnAnswer(UnResponse(200, "", "research_grade_analysis"))
               /\ un_trace' = Append(un_trace, UnStage("research", "answered"))
            \/ /\ un_pc' = "features"
               /\ un_trace' = Append(un_trace, UnStage("research", "raised"))
               /\ UNCHANGED <<un_tmp, un_resp>>
       ELSE /\ un_pc' = "features"
            /\ UNCHANGED <<un_tmp, un_resp, un_trace>>
    /\ UNCHANGED <<un_env, un_req, svc_vars, fv_vars, ep_vars>>

\* legacy feature extraction: OpenSMILE, else or on failure the librosa
\* fallback, which raises RuntimeError when librosa is missing
UnFeatures ==
    /\ un_pc = "features"
    /\ \E opensmile_ok \in BOOLEAN :
          IF (un_env.opensmile /\ opensmile_ok) \/ un_env.librosa
          THEN /\ un_pc' = "duration"
               /\ un_trace' = Append(un_trace, UnStage("extract_features", "returned"))
               /\ UNCHANGED <<un_tmp, un_resp>>
          ELSE /\ UnAnswer(UnResponse(200, "exception", "None"))
               /\ un_trace' = Append(un_trace, UnStage("extract_features", "raised"))
    /\ UNCHANGED <<un_env, un_req, svc_vars, fv_vars, ep_vars>>

\* the second duration check (Whisper requirement): a failure is only logged
UnDuration ==
    /\ un_pc = "duration"
    /\ IF ~get_duration_raises(un_req) /\ un_req.dur < WhisperMinDuration
       THEN UnAnswer(UnResponse(400, "Audio file is too short (less than 1 second).", "None"))
       ELSE /\ un_pc' = "local"
            /\ UNCHANGED <<un_tmp, un_resp>>
    /\ UNCHANGED <<un_env, un_req, un_trace, svc_vars, fv_vars, ep_vars>>

UnLocal_falls_through ==
    /\ un_pc = "local"
    /\ IF un_env.model_type = "sklearn" /\ un_env.model
       THEN \/ /\ un_pc' = "huggingface"
               /\ un_trace' = Append(un_trace, UnStage("local", "answered"))
               /\ UNCHANGED <<un_tmp, un_resp>>
            \/ /\ un_pc' = "huggingface"
               /\ un_trace' = Append(un_trace, UnStage("local", "raised"))
               /\ UNCHANGED <<un_tmp, un_resp>>
       ELSE /\ un_pc' = "huggingface"
            /\ UNCHANGED <<un_tmp, un_resp, un_trace>>
    /\ UNCHANGED <<un_env, un_req, svc_vars, fv_vars, ep_vars>>

\* the local sklearn model, when one was loaded
UnLocal ==
    /\ un_pc = "local"
    /\ IF un_env.model_type = "sklearn" /\ un_env.model
       THEN \/ /\ UnAnswer(UnResponse(200, "", "local"))
               /\ un_trace' = Append(un_trace, UnStage("local", "answered"))
            \/ /\ un_pc' = "huggingface"
               /\ un_trace' = Append(un_trace, UnStage("local", "raised"))
               /\ UNCHANGED <<un_tmp, un_resp>>
       ELSE /\ un_pc' = "huggingface"
            /\ UNCHANGED <<un_tmp, un_resp, un_trace>>
    /\ UNCHANGED <<un_env, un_req, svc_vars, fv_vars, ep_vars>>

\* the remote HuggingFace model, else 'No model available'
UnHuggingface ==
    /\ un_pc = "huggingface"
    /\ IF un_env.model_type = "huggingface" \/ un_env.hf_token
       THEN \/ /\ UnAnswer(UnResponse(200, "", "huggingface"))
               /\ un_trace' = Append(un_trace, UnStage("huggingface", "answered"))
            \/ \* _predict_huggingface returns its own error result
               /\ UnAnswer(UnResponse(200, "hf_error", "huggingface"))
               /\ un_trace' = Append(un_trace, UnStage("huggingface", "answered"))
       ELSE /\ UnAnswer(UnResponse(200, "No model available", "None"))
            /\ UNCHANGED un_trace
    /\ UNCHANGED <<un_env, un_req, svc_vars, fv_vars, ep_vars>>

\* the response has been sent; the server waits for the next request
UnReturn ==
    /\ un_pc = "done"
    /\ un_pc' = "ready"
    /\ UNCHANGED <<un_env, un_req, un_tmp, un_trace, un_resp, svc_vars, fv_vars, ep_vars>>

NextUnified ==
    \/ UnStartup
    \/ UnRequest
    \/ UnResolve
    \/ UnValidate
    \/ UnResearch
    \/ UnFeatures
    \/ UnDuration
    \/ UnLocal
    \/ UnHuggingface
    \/ UnReturn

SpecUnified == Init /\ [][NextUnified]_vars

\* the stages of predict_unified that analyse audio
UnAnalysisStages == {"research", "extract_features", "local", "huggingface"}

UnStagesRun == {un_trace[i].stage : i \in 1..Len(un_trace)}

UnAnswered == Len(un_resp) = 1

\* C23: a request to /predict/unified with no file, no audio_url and no JSON
\* file_url is answered with HTTP 400 and the error 'No audio provided (file
\* or URL).', without a temp file, feature extraction or any model being run.
C23_NoInputIs400 ==
    (UnAnswered /\ un_req.input = "none") =>
        /\ un_resp[1].status = 400
        /\ un_resp[1].error = "No audio provided (file or URL)."
        /\ un_tmp = "none"
        /\ un_trace = <<>>

C23_Witness ==
    /\ UnAnswered
    /\ un_req.input = "none"
    /\ un_resp[1].status = 400
    /\ un_env.research

\* C24: every upload to /predict/unified whose audio is shorter than the
\* endpoint's minimum duration is answered with HTTP 400 and an error
\* containing 'too short', and no research analysis, feature extraction or
\* model prediction is run for it.
C24_ShortUploadRejected ==
    (UnAnswered /\ un_req.input = "file" /\ un_req.dur < MinDurationUnified) =>
        /\ un_resp[1].status = 400
        /\ un_resp[1].error \in {"Audio too short",
                                 "Audio file is too short (less than 1 second)."}
        /\ UnStagesRun \cap UnAnalysisStages = {}

\* the classification sources of predict_unified in the order of the code
UnSources == <<"research", "local", "huggingface">>

UnAvailable(src) ==
    CASE src = "research" -> un_env.research
      [] src = "local" -> un_env.model_type = "sklearn" /\ un_env.model
      [] src = "huggingface" -> un_env.model_type = "huggingface" \/ un_env.hf_token

UnIsSource(e) == e.stage \in {UnSources[i] : i \in 1..Len(UnSources)}

\* the sources tried for the current request, in the order they were tried
UnSourcesTried == SelectSeq(un_trace, UnIsSource)

UnSourceIndex(src) == CHOOSE i \in 1..Len(UnSources) : UnSources[i] = src

UnValidated ==
    \E i \in 1..Len(un_trace) :
        un_trace[i] = UnStage("validate_audio_duration", "passed")

\* sources are tried in the fixed order, a later one only after every earlier
\* one was unavailable or raised, and the first that answers is the response
UnSourceOrder ==
    LET tried == UnSourcesTried
    IN  /\ \A i \in 1..Len(tried) :
              /\ UnAvailable(tried[i].stage)
              /\ \A k \in 1..(UnSourceIndex(tried[i].stage) - 1) :
                    \/ ~UnAvailable(UnSources[k])
                    \/ \E j \in 1..(i - 1) :
                          tried[j] = UnStage(UnSources[k], "raised")
        /\ \A i \in 1..Len(tried) :
              tried[i].outcome = "answered" =>
                  /\ i = Len(tried)
                  /\ UnAnswered
                  /\ un_resp[1].source =
                        (IF tried[i].stage = "research"
                         THEN "research_grade_analysis" ELSE tried[i].stage)

UnNoneAvailable == \A k \in 1..Len(UnSources) : ~UnAvailable(UnSources[k])

UnExtracted ==
    \E i \in 1..Len(un_trace) : un_trace[i] = UnStage("extract_features", "returned")

\* C27: after input validation the sources are tried in the order research,
\* local sklearn, remote HuggingFace, a later one only when every earlier one
\* was unavailable or raised; the first that answers determines the response,
\* and when none is available the response carries 'No model available'.
C27_SourceOrder ==
    /\ UnSourceOrder
    /\ (UnAnswered /\ UnValidated /\ UnNoneAvailable) =>
           un_resp[1].error = "No model available"

\* C27 as the code has it: 'No model available' is the answer when none is
\* available and feature extraction returned a vector; when feature
\* extraction raised, no model is tried and the exception is the answer.
C27_SourceOrderAfterExtraction ==
    /\ UnSourceOrder
    /\ (UnAnswered /\ UnValidated /\ UnNoneAvailable /\ UnExtracted) =>
           un_resp[1].error = "No model available"
    /\ (UnAnswered /\ UnValidated /\ UnNoneAvailable /\ ~UnExtracted) =>
           /\ un_resp[1].error = "exception"
           /\ UnSourcesTried = <<>>

C27_Witness ==
    /\ UnAnswered
    /\ UnSourcesTried = <<UnStage("research", "raised"), UnStage("local", "raised"),
                          UnStage("huggingface", "answered")>>
    /\ un_resp[1].source = "huggingface"

====
